---- MODULE Spec2Model ----
(***************************************************************************)
(* Model of the MCP server of readai-task-automation: transcript           *)
(* processing (semantic compare loop), the Slack proposal cards and the    *)
(* Slack interaction endpoint (accept / skip / feedback / modal submit).   *)
(* The data the Slack workspace and the Notion workspace hold is part of   *)
(* the state, together with the in-memory feedbackSessions map.            *)
(***************************************************************************)
EXTENDS Integers, Sequences, FiniteSets, TLC

\* ------------------------------------------------------------------ bounds
MaxCands == 2        \* tasks extracted from one transcript
NumRecords == 1      \* rows already in the destination data source
MaxRequests == 3     \* Slack interaction events (clicks, form submissions)
MaxTranscripts == 1  \* process-transcript requests
NumDbs == 2          \* data sources the Notion workspace lists
MaxLoopEvents == 4   \* interaction events in the feedback loop of one card
ScenarioCands == 3   \* reconciled proposals of the three-proposal scenario

\* ------------------------------------------------------- program constants
NotesLimit == 500    \* buttonPayload cuts notes longer than this

\* --------------------------------------------------------------- values
Null == [kind |-> "null", hex |-> 0]

\* a field an object does not have
Absent == 0

\* the sentinel url of a CREATE answer
NewTask == [kind |-> "New Task", hex |-> 0]

EmptyUrl == [kind |-> "", hex |-> 0]

\* Notion page ids are dashed UUIDs of 32 hex digits; hex names the digits
PageId(n) == [kind |-> "dashed", hex |-> n]

RecordIds == {PageId(n) : n \in 1..NumRecords}

\* `https://www.notion.so/${(page.id || "").replace(/-/g, "")}`
CanonicalUrl(id) == [kind |-> "https://www.notion.so/", hex |-> id.hex]

\* a url of the same shape that no fetched row has
ForeignUrl == [kind |-> "https://www.notion.so/", hex |-> NumRecords + 1]

\* existingTasks: one entry per fetched row
ExistingTasks == {[id |-> r, url |-> CanonicalUrl(r)] : r \in RecordIds}

ExistingUrls == {e.url : e \in ExistingTasks}

\* taskData.notion_url.match(/([a-f0-9]{32})/): the first run of 32 hex digits
MatchHex32(url) ==
    IF url.kind = "https://www.notion.so/" /\ url.hex # 0
    THEN [kind |-> "undashed", hex |-> url.hex]
    ELSE Null

\* the fields the compare prompt tells the comparator to copy
PreservedFields ==
    {"owner", "priority", "linked_jtbd", "start_date", "due_date", "focus_this_week"}

\* notes are kept as their length and the suffixes the program appended
Notes(len) == [len |-> len, cut |-> FALSE, refined |-> 0]

\* step 6 of process-transcript: the proposal built from extracted task i
Proposal(i) ==
    [title |-> i, project |-> "Island Way", notes |-> Notes(10), status |-> "To do",
     owner |-> "Ann", priority |-> "High", linked_jtbd |-> "TBD",
     start_date |-> "2025-01-01", due_date |-> "", focus_this_week |-> "Yes"]

\* the object JSON.parse gives for a comparator answer built on proposal p
Parsed(p, action, url, field, value) ==
    LET kept == [f \in PreservedFields |-> IF f = field THEN value ELSE p[f]]
    IN  [action |-> action, notion_url |-> url, id |-> Null,
         title |-> p.title, project |-> p.project, notes |-> p.notes,
         status |-> p.status,
         owner |-> kept["owner"], priority |-> kept["priority"],
         linked_jtbd |-> kept["linked_jtbd"], start_date |-> kept["start_date"],
         due_date |-> kept["due_date"], focus_this_week |-> kept["focus_this_week"],
         targetDbId |-> Absent, traceId |-> Absent]

\* the comparator answers for proposal p: a call that throws or returns
\* something JSON.parse rejects, or a parsed object
Failure == [ok |-> FALSE]

Answer(obj) == [ok |-> TRUE, obj |-> obj]

Urls == {NewTask, EmptyUrl, ForeignUrl} \cup ExistingUrls

\* answers that keep every preserved field of the proposal
FaithfulAnswers(p) ==
    {Failure} \cup {Answer(Parsed(p, a, u, "none", "")) : a \in {"CREATE", "UPDATE"}, u \in Urls}

\* answers that also change or drop one preserved field
AllAnswers(p) ==
    FaithfulAnswers(p) \cup
    {Answer(Parsed(p, "CREATE", NewTask, f, v)) :
        f \in PreservedFields, v \in {"changed", ""}} \cup
    {Answer(Parsed(p, "UPDATE", u, f, v)) :
        u \in ExistingUrls, f \in PreservedFields, v \in {"changed", ""}}

\* ------------------------------------------------------------------ state
VARIABLES
    pt,                \* the process-transcript request being handled
    ptDone,            \* finished process-transcript requests, with their responses
    messages,          \* the messages posted to the Slack channel
    requests,          \* interaction events Slack delivered, with their responses
    modals,            \* feedback modals open in Slack
    feedbackSessions,  \* the in-memory feedbackSessions map
    writes,            \* pages.create / pages.update calls Notion carried out
    orch,              \* requests the orchestrator received, with their responses
    call               \* the function application under study, with its result

vars == <<pt, ptDone, messages, requests, modals, feedbackSessions, writes, orch,
         call>>

Idle == [pc |-> "idle"]

\* no function application is under study
NoCall == [fn |-> "none"]

Init ==
    /\ pt = Idle
    /\ ptDone = <<>>
    /\ messages = <<>>
    /\ requests = <<>>
    /\ modals = {}
    /\ feedbackSessions = <<>>
    /\ writes = <<>>
    /\ orch = <<>>
    /\ call = NoCall

\* ------------------------------------------------------- sendTaskListToSlack
\* the notes put into the payload whole
PayloadNotesUncut(notes) == notes

\* notes: task.notes.length > 500 ? task.notes.substring(0, 500) + "..." : task.notes
PayloadNotes(notes) ==
    IF notes.len > NotesLimit
    THEN [notes EXCEPT !.len = NotesLimit + 3, !.cut = TRUE]
    ELSE notes

\* process.env.NOTION_TASK_DB_ID: the data source the environment names
NotionTaskDbId == 1

\* the data source of the environment whatever was matched
AlwaysTaskDb(targetDbId) == NotionTaskDbId

\* targetDbId || NOTION_TASK_DB_ID
OrTaskDb(targetDbId) == IF targetDbId = Absent THEN NotionTaskDbId ELSE targetDbId

\* JSON.stringify({...task, targetDbId, traceId, notes})
ButtonPayload(task, targetDbId, traceId) ==
    [task EXCEPT !.targetDbId = OrTaskDb(targetDbId), !.traceId = traceId,
                 !.notes = PayloadNotes(task.notes)]

SkipValue == [raw |-> "skip"]

JsonValue(obj) == [raw |-> "json", obj |-> obj]

\* one proposal card: the section text and the three buttons
\* (origin is history: the place in the reconciled list the card descends from)
Card(taskList, index, targetDbId, traceId, origin) ==
    [pos |-> index, total |-> Len(taskList), task |-> taskList[index],
     accept |-> JsonValue(ButtonPayload(taskList[index], targetDbId, traceId)),
     skip |-> SkipValue,
     feedback |-> JsonValue(ButtonPayload(taskList[index], targetDbId, traceId)),
     origin |-> origin]

\* the cards of one message: all of taskList, in order
Cards(taskList, targetDbId, traceId, origins) ==
    [index \in 1..Len(taskList) |->
        Card(taskList, index, targetDbId, traceId, origins[index])]

\* chat.postMessage: the channel gets the message, or the call fails and the
\* failure is logged
PostMessage(taskList, version, targetDbId, traceId, origins, posted) ==
    IF posted
    THEN Append(messages,
                [traceId |-> traceId, version |-> version,
                 cards |-> Cards(taskList, targetDbId, traceId, origins),
                 replaced |-> "no"])
    ELSE messages

\* -------------------------------------------------------- process-transcript
Failures == {"no_transcript", "normalize_error", "no_project", "no_sources", "no_match"}

\* every early return answered as a success
StatusAlwaysOk(failure) == 200

StatusOf(failure) ==
    CASE failure = "no_transcript" -> 400
      [] failure = "normalize_error" -> 500
      [] failure = "no_project" -> 400
      [] failure = "no_sources" -> 500
      [] failure = "no_match" -> 404

\* the body runPipelineBackground posts: the id the webhook minted goes out
\* as trace_id
OrchestratorBody(traceId) == [request_id |-> Absent, trace_id |-> traceId]

\* a body posted to the endpoint without any id
BareBody == [request_id |-> Absent, trace_id |-> Absent]

\* crypto.randomUUID() of process-transcript: an id no caller has minted
MintedTraceId == MaxTranscripts + 1 + Len(ptDone)

\* a fresh id whatever the body holds
TraceIdAlwaysMinted(body, uuid) == uuid

\* request_id || req.body.trace_id || crypto.randomUUID()
TraceIdOf(body, uuid) ==
    IF body.request_id # Absent THEN body.request_id
    ELSE IF body.trace_id # Absent THEN body.trace_id
    ELSE uuid

\* the request is answered before the compare loop is reached
ProcessRejected(body, failure) ==
    /\ pt.pc = "idle"
    /\ ptDone' = Append(ptDone,
           [traceId |-> TraceIdOf(body, MintedTraceId), body |-> body,
            targetDbId |-> Absent, failure |-> failure,
            status |-> StatusOf(failure), result |-> <<>>,
            from |-> <<>>, answers |-> <<>>, proposals |-> <<>>])
    /\ UNCHANGED <<pt, messages, requests, modals, feedbackSessions, writes, orch, call>>

\* steps 1 to 6: trace id, normalization, destination match (db is the id of
\* the data source whose title matched), existing rows, proposals
ProcessStart(body, n, db) ==
    /\ pt.pc = "idle"
    /\ pt' = [pc |-> "compare", traceId |-> TraceIdOf(body, MintedTraceId),
              body |-> body, targetDbId |-> db,
              proposals |-> [i \in 1..n |-> Proposal(i)], idx |-> 1,
              finalOutput |-> <<>>, from |-> <<>>, answers |-> <<>>]
    /\ UNCHANGED <<ptDone, messages, requests, modals, feedbackSessions, writes, orch, call>>

\* the lengths of the notes an extracted task may have
NoteLens == {10, NotesLimit, NotesLimit + 1, 2 * NotesLimit}

\* steps 1 to 6 for a transcript with one extracted task whose notes have
\* len characters
ProcessStartNotes(body, len, db) ==
    /\ pt.pc = "idle"
    /\ pt' = [pc |-> "compare", traceId |-> TraceIdOf(body, MintedTraceId),
              body |-> body, targetDbId |-> db,
              proposals |-> <<[Proposal(1) EXCEPT !.notes = Notes(len)]>>, idx |-> 1,
              finalOutput |-> <<>>, from |-> <<>>, answers |-> <<>>]
    /\ UNCHANGED <<ptDone, messages, requests, modals, feedbackSessions, writes, orch, call>>

\* the safety check left out
SafetyCheckSkipped(parsed) == FALSE

\* the safety check on a parsed answer: TRUE when it throws
SafetyCheckThrows(parsed) ==
    parsed.action = "UPDATE" /\ parsed.notion_url = NewTask

\* a catch around the whole loop: the first failure ends it
AfterCatchOutsideLoop(idx, n) == n + 1

\* catch (err) { logger.error(...) } inside the for loop: the loop goes on
\* with the next proposal
AfterCatch(idx, n) == idx + 1

\* one iteration of the compare loop
Compare(answer) ==
    LET rejected == ~answer.ok \/ SafetyCheckThrows(answer.obj)
    IN  /\ pt' = [pt EXCEPT
              !.idx = IF rejected THEN AfterCatch(pt.idx, Len(pt.proposals))
                      ELSE pt.idx + 1,
              !.finalOutput = IF rejected THEN @ ELSE Append(@, answer.obj),
              !.from = IF rejected THEN @ ELSE Append(@, pt.idx),
              !.answers = Append(@, answer)]
        /\ UNCHANGED <<ptDone, messages, requests, modals, feedbackSessions, writes, orch, call>>

\* the answers the comparator may give: the field-preserving ones, or all
AnswersOf(kind, p) == IF kind = "faithful" THEN FaithfulAnswers(p) ELSE AllAnswers(p)

CompareStep(kind) ==
    /\ pt.pc = "compare"
    /\ pt.idx <= Len(pt.proposals)
    /\ \E answer \in AnswersOf(kind, pt.proposals[pt.idx]) : Compare(answer)

\* the answers that parsed, whether or not they passed the safety check
ParsedAnswers(answers) ==
    LET ok == SelectSeq(answers, LAMBDA a : a.ok)
    IN  [k \in 1..Len(ok) |-> ok[k].obj]

\* every parsed answer goes to Slack instead of finalOutput
ProcessSendAllParsed(posted) ==
    /\ pt.pc = "compare"
    /\ pt.idx > Len(pt.proposals)
    /\ messages' = PostMessage(ParsedAnswers(pt.answers), 0, pt.targetDbId, pt.traceId,
                               [k \in 1..Len(pt.answers) |-> k], posted)
    /\ ptDone' = Append(ptDone,
           [traceId |-> pt.traceId, body |-> pt.body, targetDbId |-> pt.targetDbId,
            failure |-> "none", status |-> 200, result |-> pt.finalOutput,
            from |-> pt.from, answers |-> pt.answers, proposals |-> pt.proposals])
    /\ pt' = Idle
    /\ UNCHANGED <<requests, modals, feedbackSessions, writes, orch, call>>

\* steps 8 and 9: all of finalOutput goes to Slack in one message, then 200
ProcessSend(posted) ==
    /\ pt.pc = "compare"
    /\ pt.idx > Len(pt.proposals)
    /\ messages' = PostMessage(pt.finalOutput, 0, pt.targetDbId, pt.traceId,
                               [k \in 1..Len(pt.finalOutput) |-> k], posted)
    /\ ptDone' = Append(ptDone,
           [traceId |-> pt.traceId, body |-> pt.body, targetDbId |-> pt.targetDbId,
            failure |-> "none", status |-> 200, result |-> pt.finalOutput, from |-> pt.from,
            answers |-> pt.answers, proposals |-> pt.proposals])
    /\ pt' = Idle
    /\ UNCHANGED <<requests, modals, feedbackSessions, writes, orch, call>>

\* ------------------------------------------------------------ the human
Buttons == {"accept_task", "skip_task", "feedback_task"}

ButtonValue(card, action_id) ==
    CASE action_id = "accept_task" -> card.accept
      [] action_id = "skip_task" -> card.skip
      [] action_id = "feedback_task" -> card.feedback

\* a click on a button of a card that is still on display
HumanClick(m, c, action_id) ==
    /\ m \in DOMAIN messages
    /\ messages[m].replaced = "no"
    /\ c \in DOMAIN messages[m].cards
    /\ requests' = Append(requests,
           [type |-> "block_actions", action_id |-> action_id,
            value |-> ButtonValue(messages[m].cards[c], action_id),
            msg |-> m, card |-> c, origin |-> messages[m].cards[c].origin,
            resp |-> "pending"])
    /\ UNCHANGED <<pt, ptDone, messages, modals, feedbackSessions, writes, orch, call>>

\* the values the form holds when the human changes nothing or the title
FormValues(seed, edit) ==
    IF edit = "title" THEN [seed EXCEPT !.title = seed.title + MaxCands] ELSE seed

\* the human presses Submit on an open feedback modal
HumanSubmit(modal, edit) ==
    /\ modal \in modals
    /\ requests' = Append(requests,
           [type |-> "view_submission", callback_id |-> "feedback_modal_submit",
            sessionId |-> modal.sessionId, values |-> FormValues(modal.seed, edit),
            resp |-> "pending"])
    /\ UNCHANGED <<pt, ptDone, messages, modals, feedbackSessions, writes, orch, call>>

\* ------------------------------------------------------- slack-interaction
Respond(r, resp) == requests' = [requests EXCEPT ![r].resp = resp]

Pending(r, type) ==
    /\ r \in DOMAIN requests
    /\ requests[r].resp = "pending"
    /\ requests[r].type = type

\* const taskData = JSON.parse(action.value)
ParseThrows(value) == value.raw # "json"

\* res.json({ replace_original: "true", text }): Slack swaps the clicked message
ReplaceOriginal(m, text) == [messages EXCEPT ![m].replaced = text]

\* the catch of the endpoint: res.status(500).send("Error")
HandlerThrows(r) ==
    /\ Respond(r, "500 Error")
    /\ UNCHANGED <<pt, ptDone, messages, modals, feedbackSessions, writes, orch, call>>

\* the UPDATE branch's page id: taskData.id, else the 32 hex digits of the url
PageIdOf(taskData) ==
    IF taskData.id # Null THEN taskData.id
    ELSE IF taskData.notion_url \notin {EmptyUrl, Null}
         THEN MatchHex32(taskData.notion_url)
         ELSE Null

\* notionProperties: the page properties an Accept sends (an empty date is a
\* property left out); an update sends the notes with "\n[Updated via Slack]"
\* appended
NotionProperties(taskData, op) ==
    [Tasks |-> taskData.title,
     Status |-> IF taskData.status = "" THEN "To do" ELSE taskData.status,
     Jobs |-> taskData.linked_jtbd,
     Owner |-> taskData.owner,
     PriorityLevel |-> IF taskData.priority = "" THEN "Medium" ELSE taskData.priority,
     Source |-> "Virtual Meeting",
     Notes |-> [text |-> taskData.notes,
                suffix |-> IF op = "update" THEN "\n[Updated via Slack]" ELSE ""],
     FocusThisWeek |-> taskData.focus_this_week = "Yes",
     StartDate |-> taskData.start_date,
     DueDate |-> taskData.due_date]

\* pages.create / pages.update carried out (task, req and origin are history:
\* the decoded payload and the click the call was made for)
NotionWrite(r, op, target, taskData) ==
    Append(writes, [op |-> op, target |-> target,
                    properties |-> NotionProperties(taskData, op),
                    task |-> taskData, req |-> r, origin |-> requests[r].origin])

\* accept_task with action CREATE: pages.create, then the "Created" card
AcceptCreate(r, taskData, written) ==
    IF written
    THEN /\ writes' = NotionWrite(r, "create", OrTaskDb(taskData.targetDbId), taskData)
         /\ messages' = ReplaceOriginal(requests[r].msg, "Created")
         /\ Respond(r, "200 Created")
         /\ UNCHANGED <<pt, ptDone, modals, feedbackSessions, orch, call>>
    ELSE HandlerThrows(r)

\* an UPDATE without a page id that falls back to creating the page
AcceptUpdateOrCreate(r, taskData, written) ==
    IF PageIdOf(taskData) = Null
    THEN AcceptCreate(r, taskData, written)
    ELSE IF written
    THEN /\ writes' = NotionWrite(r, "update", PageIdOf(taskData), taskData)
         /\ messages' = ReplaceOriginal(requests[r].msg, "Updated")
         /\ Respond(r, "200 Updated")
         /\ UNCHANGED <<pt, ptDone, modals, feedbackSessions, orch, call>>
    ELSE HandlerThrows(r)

\* accept_task with action UPDATE: pages.update when a page id is found
AcceptUpdate(r, taskData, written) ==
    IF PageIdOf(taskData) = Null
    THEN /\ Respond(r, "400 Could not determine Page ID for update.")
         /\ UNCHANGED <<pt, ptDone, messages, modals, feedbackSessions, writes, orch, call>>
    ELSE IF written
    THEN /\ writes' = NotionWrite(r, "update", PageIdOf(taskData), taskData)
         /\ messages' = ReplaceOriginal(requests[r].msg, "Updated")
         /\ Respond(r, "200 Updated")
         /\ UNCHANGED <<pt, ptDone, modals, feedbackSessions, orch, call>>
    ELSE HandlerThrows(r)

HandleAccept(r, written) ==
    /\ Pending(r, "block_actions")
    /\ requests[r].action_id = "accept_task"
    /\ IF ParseThrows(requests[r].value) THEN HandlerThrows(r)
       ELSE LET taskData == requests[r].value.obj
            IN  CASE taskData.action = "CREATE" -> AcceptCreate(r, taskData, written)
                  [] taskData.action = "UPDATE" -> AcceptUpdate(r, taskData, written)
                  [] OTHER -> /\ Respond(r, "none")
                              /\ UNCHANGED <<pt, ptDone, messages, modals,
                                             feedbackSessions, writes, orch, call>>

\* accept_task up to its await: the value is parsed, the properties are built
\* and pages.create or pages.update is called; while the handler waits for
\* Notion the server takes other requests
AcceptIssue(r) ==
    /\ Pending(r, "block_actions")
    /\ requests[r].action_id = "accept_task"
    /\ IF ParseThrows(requests[r].value) THEN HandlerThrows(r)
       ELSE LET taskData == requests[r].value.obj
            IN  IF \/ taskData.action = "CREATE"
                   \/ taskData.action = "UPDATE" /\ PageIdOf(taskData) # Null
                THEN /\ Respond(r, "awaiting Notion")
                     /\ UNCHANGED <<pt, ptDone, messages, modals, feedbackSessions,
                                    writes, orch, call>>
                ELSE IF taskData.action = "UPDATE"
                THEN AcceptUpdate(r, taskData, FALSE)
                ELSE /\ Respond(r, "none")
                     /\ UNCHANGED <<pt, ptDone, messages, modals, feedbackSessions,
                                    writes, orch, call>>

\* accept_task after its await: Notion carried the call out or it threw, and
\* the click is answered
AcceptComplete(r, written) ==
    /\ r \in DOMAIN requests
    /\ requests[r].resp = "awaiting Notion"
    /\ LET taskData == requests[r].value.obj
       IN  IF taskData.action = "CREATE"
           THEN AcceptCreate(r, taskData, written)
           ELSE AcceptUpdate(r, taskData, written)

\* skip_task: the "Skipped" card, once the button value has been parsed
HandleSkip(r) ==
    /\ Pending(r, "block_actions")
    /\ requests[r].action_id = "skip_task"
    /\ IF ParseThrows(requests[r].value) THEN HandlerThrows(r)
       ELSE /\ messages' = ReplaceOriginal(requests[r].msg, "Skipped")
            /\ Respond(r, "200 Skipped")
            /\ UNCHANGED <<pt, ptDone, modals, feedbackSessions, writes, orch, call>>

\* a form whose date pickers are left without their initial dates
SeedValuesNoDates(task) ==
    [title |-> task.title, notes |-> task.notes,
     owner |-> IF task.owner = "" THEN "Unassigned" ELSE task.owner,
     project |-> IF task.project = "" THEN "General" ELSE task.project,
     priority |-> IF task.priority = "" THEN "Medium" ELSE task.priority,
     status |-> IF task.status = "" THEN "To do" ELSE task.status,
     start_date |-> "", due_date |-> "",
     focus |-> IF task.focus_this_week = "" THEN "No" ELSE task.focus_this_week,
     jtbd |-> task.linked_jtbd]

\* the initial values openFeedbackModal puts into the form
SeedValues(task) ==
    [title |-> task.title, notes |-> task.notes,
     owner |-> IF task.owner = "" THEN "Unassigned" ELSE task.owner,
     project |-> IF task.project = "" THEN "General" ELSE task.project,
     priority |-> IF task.priority = "" THEN "Medium" ELSE task.priority,
     status |-> IF task.status = "" THEN "To do" ELSE task.status,
     start_date |-> task.start_date, due_date |-> task.due_date,
     focus |-> IF task.focus_this_week = "" THEN "No" ELSE task.focus_this_week,
     jtbd |-> task.linked_jtbd]

Max(S) == CHOOSE x \in S : \A y \in S : y <= x

\* the session ids the map, an open modal or a submission holds
UsedSessionIds ==
    DOMAIN feedbackSessions
    \cup {md.sessionId : md \in modals}
    \cup {requests[r].sessionId :
             r \in {q \in DOMAIN requests : requests[q].type = "view_submission"}}

\* crypto.randomUUID(): an id nothing holds
FreshSessionId == Max(UsedSessionIds \cup {0}) + 1

\* feedback_task: a new feedback session, then the modal
HandleFeedback(r, opened) ==
    /\ Pending(r, "block_actions")
    /\ requests[r].action_id = "feedback_task"
    /\ IF ParseThrows(requests[r].value) THEN HandlerThrows(r)
       ELSE LET taskData == requests[r].value.obj
            IN  /\ feedbackSessions' = feedbackSessions @@ (FreshSessionId :>
                       [task |-> taskData, iteration |-> 1,
                        traceId |-> taskData.traceId, origin |-> requests[r].origin])
                /\ IF opened
                   THEN /\ modals' = modals \cup
                              {[sessionId |-> FreshSessionId, seed |-> SeedValues(taskData)]}
                        /\ Respond(r, "200")
                   ELSE /\ modals' = modals
                        /\ Respond(r, "500 Error")
                /\ UNCHANGED <<pt, ptDone, messages, writes, orch, call>>

\* notes + "\n(Refined by User)"
RefinedNotes(notes) == [notes EXCEPT !.len = @ + 18, !.refined = @ + 1]

\* a refined task that is always proposed as a new record
UpdatedTaskAsNew(task, v) ==
    [task EXCEPT !.title = v.title, !.notes = RefinedNotes(v.notes),
                 !.owner = v.owner, !.project = v.project, !.linked_jtbd = v.jtbd,
                 !.priority = v.priority, !.status = v.status,
                 !.focus_this_week = v.focus, !.start_date = v.start_date,
                 !.due_date = v.due_date, !.action = "CREATE",
                 !.notion_url = NewTask]

\* step 3 of the modal submission: the session's task under the form's values
UpdatedTask(task, v) ==
    [task EXCEPT !.title = v.title, !.notes = RefinedNotes(v.notes),
                 !.owner = v.owner, !.project = v.project, !.linked_jtbd = v.jtbd,
                 !.priority = v.priority, !.status = v.status,
                 !.focus_this_week = v.focus, !.start_date = v.start_date,
                 !.due_date = v.due_date]

\* a submission that saves the refined task to Notion itself instead of
\* posting a card for it
HandleSubmitWrites(r, posted) ==
    /\ Pending(r, "view_submission")
    /\ requests[r].sessionId \in DOMAIN feedbackSessions
    /\ LET session == feedbackSessions[requests[r].sessionId]
           updatedTask == UpdatedTask(session.task, requests[r].values)
       IN  writes' = Append(writes,
               [op |-> "create", target |-> OrTaskDb(updatedTask.targetDbId),
                properties |-> NotionProperties(updatedTask, "create"),
                task |-> updatedTask, req |-> r, origin |-> session.origin])
    /\ modals' = {md \in modals : md.sessionId # requests[r].sessionId}
    /\ Respond(r, "200 clear")
    /\ UNCHANGED <<pt, ptDone, messages, feedbackSessions, orch, call>>

\* a submission handled without the test for a lost session: reading the
\* task of a session that is not there throws
HandleSubmitUnguarded(r, posted) ==
    /\ Pending(r, "view_submission")
    /\ LET sessionId == requests[r].sessionId
       IN  IF sessionId \notin DOMAIN feedbackSessions
           THEN HandlerThrows(r)
           ELSE LET session == feedbackSessions[sessionId]
                    updatedTask == UpdatedTask(session.task, requests[r].values)
                IN  /\ feedbackSessions' = [feedbackSessions EXCEPT
                           ![sessionId].iteration = @ + 1,
                           ![sessionId].task = updatedTask]
                    /\ messages' = PostMessage(<<updatedTask>>, session.iteration + 1,
                                       OrTaskDb(updatedTask.targetDbId), session.traceId,
                                       <<session.origin>>, posted)
                    /\ modals' = {md \in modals : md.sessionId # sessionId}
                    /\ Respond(r, "200 clear")
                    /\ UNCHANGED <<pt, ptDone, writes, orch, call>>

\* view_submission of feedback_modal_submit
HandleSubmit(r, posted) ==
    /\ Pending(r, "view_submission")
    /\ LET sessionId == requests[r].sessionId
       IN  IF sessionId \notin DOMAIN feedbackSessions
           THEN /\ Respond(r, "200 clear")
                /\ modals' = {md \in modals : md.sessionId # sessionId}
                /\ UNCHANGED <<pt, ptDone, messages, feedbackSessions, writes, orch, call>>
           ELSE LET session == feedbackSessions[sessionId]
                    updatedTask == UpdatedTask(session.task, requests[r].values)
                IN  /\ feedbackSessions' = [feedbackSessions EXCEPT
                           ![sessionId].iteration = @ + 1,
                           ![sessionId].task = updatedTask]
                    /\ messages' = PostMessage(<<updatedTask>>, session.iteration + 1,
                                       OrTaskDb(updatedTask.targetDbId), session.traceId,
                                       <<session.origin>>, posted)
                    /\ modals' = {md \in modals : md.sessionId # sessionId}
                    /\ Respond(r, "200 clear")
                    /\ UNCHANGED <<pt, ptDone, writes, orch, call>>

\* the server process is started again: the feedbackSessions map is in memory
\* only and comes back empty; what Slack and Notion hold stays
Restart ==
    /\ pt.pc = "idle"
    /\ feedbackSessions # <<>>
    /\ feedbackSessions' = <<>>
    /\ UNCHANGED <<pt, ptDone, messages, requests, modals, writes, orch, call>>

\* ------------------------------------------------------------ specification
Traces == 1..MaxTranscripts

Dbs == 1..NumDbs

\* the bodies that reach process-transcript: from the orchestrator, or bare
Bodies == {OrchestratorBody(t) : t \in Traces} \cup {BareBody}

\* a transcript arrives while fewer than limit have been processed
Arrives(limit) == Len(ptDone) < limit

\* Slack delivers an interaction event while fewer than limit were delivered
Delivers(limit) == Len(requests) < limit

Next ==
    \/ \E t \in Traces, f \in Failures :
          Arrives(MaxTranscripts) /\ ProcessRejected(OrchestratorBody(t), f)
    \/ \E t \in Traces, n \in 0..MaxCands, db \in Dbs :
          Arrives(MaxTranscripts) /\ ProcessStart(OrchestratorBody(t), n, db)
    \/ CompareStep("faithful")
    \/ \E posted \in BOOLEAN : ProcessSend(posted)
    \/ \E m \in DOMAIN messages, c \in 1..MaxCands, b \in Buttons :
          Delivers(MaxRequests) /\ HumanClick(m, c, b)
    \/ \E md \in modals, e \in {"none", "title"} :
          Delivers(MaxRequests) /\ HumanSubmit(md, e)
    \/ \E r \in DOMAIN requests, w \in BOOLEAN : HandleAccept(r, w)
    \/ \E r \in DOMAIN requests : HandleSkip(r)
    \/ \E r \in DOMAIN requests, o \in BOOLEAN : HandleFeedback(r, o)
    \/ \E r \in DOMAIN requests, p \in BOOLEAN : HandleSubmit(r, p)

Spec == Init /\ [][Next]_vars

\* the processing of one transcript, under every comparator answer
NextReconcile ==
    \/ \E t \in Traces, f \in Failures :
          Arrives(1) /\ ProcessRejected(OrchestratorBody(t), f)
    \/ \E t \in Traces, n \in 0..MaxCands, db \in Dbs :
          Arrives(1) /\ ProcessStart(OrchestratorBody(t), n, db)
    \/ CompareStep("all")
    \/ \E posted \in BOOLEAN : ProcessSend(posted)

SpecReconcile == Init /\ [][NextReconcile]_vars

\* the decisions on the card of one transcript with one extracted task, with
\* restarts of the server
NextLoop ==
    \/ \E t \in Traces, f \in Failures :
          Arrives(1) /\ ProcessRejected(OrchestratorBody(t), f)
    \/ \E t \in Traces, db \in Dbs :
          Arrives(1) /\ ProcessStart(OrchestratorBody(t), 1, db)
    \/ CompareStep("faithful")
    \/ \E posted \in BOOLEAN : ProcessSend(posted)
    \/ \E m \in DOMAIN messages, b \in Buttons :
          Delivers(MaxRequests) /\ HumanClick(m, 1, b)
    \/ \E md \in modals, e \in {"none", "title"} :
          Delivers(MaxRequests) /\ HumanSubmit(md, e)
    \/ \E r \in DOMAIN requests, w \in BOOLEAN : HandleAccept(r, w)
    \/ \E r \in DOMAIN requests : HandleSkip(r)
    \/ \E r \in DOMAIN requests, o \in BOOLEAN : HandleFeedback(r, o)
    \/ \E r \in DOMAIN requests, p \in BOOLEAN : HandleSubmit(r, p)
    \/ Restart

SpecLoop == Init /\ [][NextLoop]_vars

\* the feedback form on the card of one transcript with one extracted task,
\* under every request body and every comparator answer
NextForm ==
    \/ \E body \in Bodies, f \in Failures : Arrives(1) /\ ProcessRejected(body, f)
    \/ \E body \in Bodies, db \in Dbs : Arrives(1) /\ ProcessStart(body, 1, db)
    \/ CompareStep("all")
    \/ \E posted \in BOOLEAN : ProcessSend(posted)
    \/ \E m \in DOMAIN messages :
          Delivers(MaxRequests) /\ HumanClick(m, 1, "feedback_task")
    \/ \E md \in modals, e \in {"none", "title"} :
          Delivers(MaxRequests) /\ HumanSubmit(md, e)
    \/ \E r \in DOMAIN requests, o \in BOOLEAN : HandleFeedback(r, o)
    \/ \E r \in DOMAIN requests, p \in BOOLEAN : HandleSubmit(r, p)

SpecForm == Init /\ [][NextForm]_vars

\* refinement after refinement of the card of one transcript with one
\* extracted task
NextRefine ==
    \/ \E t \in Traces, f \in Failures :
          Arrives(1) /\ ProcessRejected(OrchestratorBody(t), f)
    \/ \E t \in Traces, db \in Dbs :
          Arrives(1) /\ ProcessStart(OrchestratorBody(t), 1, db)
    \/ CompareStep("faithful")
    \/ \E posted \in BOOLEAN : ProcessSend(posted)
    \/ \E m \in DOMAIN messages :
          Delivers(MaxLoopEvents) /\ HumanClick(m, 1, "feedback_task")
    \/ \E md \in modals, e \in {"none", "title"} :
          Delivers(MaxLoopEvents) /\ HumanSubmit(md, e)
    \/ \E r \in DOMAIN requests, o \in BOOLEAN : HandleFeedback(r, o)
    \/ \E r \in DOMAIN requests, p \in BOOLEAN : HandleSubmit(r, p)

SpecRefine == Init /\ [][NextRefine]_vars

\* the way of the notes of one extracted task, short or long, from the card
\* through the button payload into Notion
NextPayload ==
    \/ \E t \in Traces, len \in NoteLens, db \in Dbs :
          Arrives(1) /\ ProcessStartNotes(OrchestratorBody(t), len, db)
    \/ CompareStep("faithful")
    \/ \E posted \in BOOLEAN : ProcessSend(posted)
    \/ \E m \in DOMAIN messages, b \in {"accept_task", "feedback_task"} :
          Delivers(MaxRequests) /\ HumanClick(m, 1, b)
    \/ \E r \in DOMAIN requests, w \in BOOLEAN : HandleAccept(r, w)
    \/ \E r \in DOMAIN requests, o \in BOOLEAN : HandleFeedback(r, o)

SpecPayload == Init /\ [][NextPayload]_vars

\* Accept clicks on the card of one transcript with one extracted task, the
\* handler taken in its two parts, before and after the call to Notion
NextAwait ==
    \/ \E t \in Traces, db \in Dbs :
          Arrives(1) /\ ProcessStart(OrchestratorBody(t), 1, db)
    \/ CompareStep("faithful")
    \/ \E posted \in BOOLEAN : ProcessSend(posted)
    \/ \E m \in DOMAIN messages :
          Delivers(MaxRequests) /\ HumanClick(m, 1, "accept_task")
    \/ \E r \in DOMAIN requests : AcceptIssue(r)
    \/ \E r \in DOMAIN requests, w \in BOOLEAN : AcceptComplete(r, w)

SpecAwait == Init /\ [][NextAwait]_vars

\* a transcript with three extracted tasks whose cards the human takes in
\* order, one Accept or Skip for each
NextScenario ==
    \/ \E t \in Traces, db \in Dbs :
          Arrives(1) /\ ProcessStart(OrchestratorBody(t), ScenarioCands, db)
    \/ CompareStep("faithful")
    \/ \E posted \in BOOLEAN : ProcessSend(posted)
    \/ \E m \in DOMAIN messages, b \in {"accept_task", "skip_task"} :
          Delivers(ScenarioCands) /\ HumanClick(m, Len(requests) + 1, b)
    \/ \E r \in DOMAIN requests, w \in BOOLEAN : HandleAccept(r, w)
    \/ \E r \in DOMAIN requests : HandleSkip(r)

SpecScenario == Init /\ [][NextScenario]_vars

\* ------------------------------------------------------------ observations
Handled(r) == requests[r].resp # "pending"

\* request r is answered by this step
AnsweredNow(r) ==
    /\ r \in DOMAIN requests
    /\ requests[r].resp = "pending"
    /\ requests'[r].resp # "pending"

IsClick(r, action_id) ==
    requests[r].type = "block_actions" /\ requests[r].action_id = action_id

\* the session (trace id) of the message a click was made on
SessionOf(r) == messages[requests[r].msg].traceId

\* proposal k of session t has reached a terminal decision: an Accept that
\* succeeded, an Accept that failed and was retained, or a Skip
Decided(t, k) ==
    \E r \in DOMAIN requests :
        /\ requests[r].type = "block_actions"
        /\ requests[r].action_id \in {"accept_task", "skip_task"}
        /\ Handled(r)
        /\ SessionOf(r) = t
        /\ requests[r].origin = k

\* the cards of session t on display in msgs, as <<message, card>>
OnDisplay(msgs, t) ==
    UNION {{<<m, c>> : c \in DOMAIN msgs[m].cards} :
              m \in {k \in DOMAIN msgs : msgs[k].traceId = t /\ msgs[k].replaced = "no"}}

\* the proposals of session t awaiting a human action in msgs
Awaiting(msgs, t) == {msgs[mc[1]].cards[mc[2]].origin : mc \in OnDisplay(msgs, t)}

\* the process-transcript runs that answered 200
Reconciled == {d \in {ptDone[i] : i \in DOMAIN ptDone} : d.status = 200}

\* the number of reconciled proposals of session t
NumProposals(t) ==
    LET i == CHOOSE i \in DOMAIN ptDone : ptDone[i].traceId = t /\ ptDone[i].status = 200
    IN  Len(ptDone[i].result)

CardSlots ==
    UNION {{<<m, c>> : c \in DOMAIN messages[m].cards} : m \in DOMAIN messages}

\* every card ever posted
AllCards == {messages[mc[1]].cards[mc[2]] : mc \in CardSlots}

\* ------------------------------------------------------------------ claims

\* C1: a card for proposal k+1 of a session is on the channel only if
\* proposal k of that session has already reached a terminal decision
C1_OneAtATime ==
    \A mc \in CardSlots :
        LET card == messages[mc[1]].cards[mc[2]]
        IN  card.origin > 1 => Decided(messages[mc[1]].traceId, card.origin - 1)

\* C2: Accept clicks on one card cause at most one record-keeping write
C2_NoDoubleWrite ==
    \A i, j \in DOMAIN writes :
        (/\ requests[writes[i].req].msg = requests[writes[j].req].msg
         /\ requests[writes[i].req].card = requests[writes[j].req].card)
        => i = j

\* C3: an Accept whose record-keeping write fails is answered with a
\* replacement "failed" card
C3_FailedAcceptShowsFailedCard ==
    [][\A r \in DOMAIN requests :
          (/\ AnsweredNow(r)
           /\ IsClick(r, "accept_task")
           /\ requests'[r].resp = "500 Error")
          => messages'[requests[r].msg].replaced = "Failed"]_vars

\* C4: the proposal awaiting action moves on by exactly one on each Skip and
\* on each successful Accept
C4_CursorAdvancesByOne ==
    [][\A r \in DOMAIN requests :
          (/\ AnsweredNow(r)
           /\ \/ IsClick(r, "skip_task")
              \/ IsClick(r, "accept_task") /\ Len(writes') > Len(writes))
          => LET t == SessionOf(r)
                 k == requests[r].origin
             IN  Awaiting(messages', t) =
                     IF k < NumProposals(t) THEN {k + 1} ELSE {}]_vars

\* C5: a Feedback-submit leaves the count of proposals on display unchanged
\* and the refined card shows the position "k of n" of the proposal it refines
C5_SubmitKeepsPosition ==
    [][\A r \in DOMAIN requests :
          (/\ AnsweredNow(r)
           /\ requests[r].type = "view_submission"
           /\ requests[r].sessionId \in DOMAIN feedbackSessions)
          => LET session == feedbackSessions[requests[r].sessionId]
                 t == session.traceId
             IN  /\ Cardinality(OnDisplay(messages', t)) =
                        Cardinality(OnDisplay(messages, t))
                 /\ \A m \in DOMAIN messages' \ DOMAIN messages :
                        /\ messages'[m].cards[1].pos = session.origin
                        /\ messages'[m].cards[1].total = NumProposals(t)]_vars

\* C6: when an Accept payload is processed, its action is CREATE exactly when
\* its notion_url is the sentinel "New Task"
C6_CreateIffNewTask ==
    \A r \in DOMAIN requests :
        (IsClick(r, "accept_task") /\ Handled(r) /\ ~ParseThrows(requests[r].value))
        => (requests[r].value.obj.action = "CREATE"
            <=> requests[r].value.obj.notion_url = NewTask)

SentinelUpdate(task) == task.action = "UPDATE" /\ task.notion_url = NewTask

\* C7: a comparator answer of UPDATE with the url "New Task" is not appended
\* to the reconciled list and no card or button payload carries it
C7_SentinelUpdateRejected ==
    /\ \A d \in Reconciled :
          /\ \A i \in DOMAIN d.answers :
                (d.answers[i].ok /\ SentinelUpdate(d.answers[i].obj))
                => \A k \in DOMAIN d.from : d.from[k] # i
          /\ \A k \in DOMAIN d.result : ~SentinelUpdate(d.result[k])
    /\ \A card \in AllCards :
          /\ ~SentinelUpdate(card.task)
          /\ ~SentinelUpdate(card.accept.obj)
          /\ ~SentinelUpdate(card.feedback.obj)

\* a run that was answered UPDATE with "New Task" for one candidate, and whose
\* other candidate was posted as a card
C7_Witness ==
    \E d \in Reconciled :
        /\ \E i \in DOMAIN d.answers :
              d.answers[i].ok /\ SentinelUpdate(d.answers[i].obj)
        /\ Len(d.result) >= 1
        /\ AllCards # {}

\* C8: every reconciled UPDATE proposal, and every card of one, carries the
\* url of one of the existing records
C8_UpdateUrlAmongExisting ==
    /\ \A d \in Reconciled : \A k \in DOMAIN d.result :
          d.result[k].action = "UPDATE" => d.result[k].notion_url \in ExistingUrls
    /\ \A card \in AllCards :
          card.task.action = "UPDATE" => card.task.notion_url \in ExistingUrls

\* C9: every reconciled proposal has the owner, priority, linked reference,
\* dates and focus value of the candidate that was sent to the comparator
C9_FieldsPreserved ==
    \A d \in Reconciled : \A k \in DOMAIN d.result :
        \A f \in PreservedFields : d.result[k][f] = d.proposals[d.from[k]][f]

\* the comparison of a candidate succeeded: an answer came back, parsed, and
\* passed the safety check
Succeeded(answer) ==
    answer.ok /\ ~(answer.obj.action = "UPDATE" /\ answer.obj.notion_url = NewTask)

C12_SkipAlwaysSkips ==
    [][\A r \in DOMAIN requests :
          (AnsweredNow(r) /\ IsClick(r, "skip_task"))
          => /\ writes' = writes
             /\ requests'[r].resp = "200 Skipped"
             /\ messages'[requests[r].msg].replaced = "Skipped"]_vars

\* C13: the click that causes a record-keeping write has been acknowledged
\* before the write is carried out
C13_AckBeforeWrite ==
    [][\A i \in DOMAIN writes' \ DOMAIN writes : Handled(writes'[i].req)]_vars

\* a submission whose session is in the map and whose values are the ones
\* its form, still open, was seeded with
UneditedSubmit(r) ==
    /\ requests[r].type = "view_submission"
    /\ requests[r].sessionId \in DOMAIN feedbackSessions
    /\ \E md \in modals :
          md.sessionId = requests[r].sessionId /\ requests[r].values = md.seed

\* C14 as stated: submitting the form as it was seeded leaves every field of
\* the stored proposal as it was and adds 1 to the iteration
C14_UneditedSubmitKeepsAll ==
    [][\A r \in DOMAIN requests :
          (AnsweredNow(r) /\ UneditedSubmit(r))
          => LET sid == requests[r].sessionId
             IN  /\ feedbackSessions'[sid].task = feedbackSessions[sid].task
                 /\ feedbackSessions'[sid].iteration =
                        feedbackSessions[sid].iteration + 1]_vars

\* C14 amended: submitting the form as it was seeded adds 1 to the iteration
\* and leaves every field of the stored proposal as it was, except that the
\* notes get "\n(Refined by User)" appended and that an empty owner, project,
\* priority, status or focus takes the default the form showed; the refined
\* card carries that proposal
C14_UneditedSubmitKeepsAllButNotes ==
    [][\A r \in DOMAIN requests :
          (AnsweredNow(r) /\ UneditedSubmit(r))
          => LET sid == requests[r].sessionId
                 old == feedbackSessions[sid].task
                 new == feedbackSessions'[sid].task
             IN  /\ feedbackSessions'[sid].iteration =
                        feedbackSessions[sid].iteration + 1
                 /\ new.notes.len = old.notes.len + 18
                 /\ new.notes.refined = old.notes.refined + 1
                 /\ new.notes.cut = old.notes.cut
                 /\ new.owner = IF old.owner = "" THEN "Unassigned" ELSE old.owner
                 /\ new.project = IF old.project = "" THEN "General" ELSE old.project
                 /\ new.priority = IF old.priority = "" THEN "Medium" ELSE old.priority
                 /\ new.status = IF old.status = "" THEN "To do" ELSE old.status
                 /\ new.focus_this_week =
                        IF old.focus_this_week = "" THEN "No" ELSE old.focus_this_week
                 /\ \A f \in {"title", "linked_jtbd", "start_date", "due_date",
                              "action", "notion_url", "id", "targetDbId", "traceId"} :
                        new[f] = old[f]
                 /\ \A m \in DOMAIN messages' \ DOMAIN messages :
                        messages'[m].cards[1].task = new]_vars

\* a form opened on a proposal without owner was submitted as seeded: the
\* session is at iteration 2, its notes carry one suffix, its owner is the
\* form's default and its title is the one the card had
C14_Witness ==
    \E r \in DOMAIN requests :
        /\ requests[r].type = "view_submission"
        /\ requests[r].resp = "200 clear"
        /\ requests[r].sessionId \in DOMAIN feedbackSessions
        /\ LET session == feedbackSessions[requests[r].sessionId]
           IN  /\ session.iteration = 2
               /\ session.task.notes.refined = 1
               /\ session.task.owner = "Unassigned"
               /\ requests[r].values.owner = "Unassigned"
               /\ requests[r].values.title = session.task.title
               /\ \E m \in DOMAIN messages :
                     messages[m].version = 2 /\ messages[m].cards[1].task = session.task

\* the refinements a proposal has been through: one "(Refined by User)"
\* suffix was appended to its notes by each
Refinements(task) == task.notes.refined

\* C15: when a form opened from the most recently posted card, and still
\* open, is submitted, the iteration of its session, and the version the refined card shows, is
\* one more than the number of refinements the proposal has then been through
C15_IterationCountsRefinements ==
    [][\A r \in DOMAIN requests :
          (/\ AnsweredNow(r)
           /\ requests[r].type = "view_submission"
           /\ requests[r].sessionId \in DOMAIN feedbackSessions
           /\ \E md \in modals : md.sessionId = requests[r].sessionId
           /\ messages # <<>>
           /\ feedbackSessions[requests[r].sessionId].task =
                  messages[Len(messages)].cards[1].feedback.obj)
          => LET sid == requests[r].sessionId
                 n == Refinements(feedbackSessions'[sid].task)
             IN  /\ feedbackSessions'[sid].iteration = n + 1
                 /\ \A m \in DOMAIN messages' \ DOMAIN messages :
                        messages'[m].version = n + 1]_vars

\* C16: once the submission of a form has been handled, the session of that
\* form is no longer in the feedbackSessions map
C16_SessionDestroyedOnSubmit ==
    [][\A r \in DOMAIN requests :
          (AnsweredNow(r) /\ requests[r].type = "view_submission")
          => requests[r].sessionId \notin DOMAIN feedbackSessions']_vars

\* C17: the submission of a form whose session is not in the feedbackSessions
\* map changes no session, posts no card, writes no record, and is answered
\* with the normal acknowledgment that closes the form
C17_MissingSessionNoOp ==
    [][\A r \in DOMAIN requests :
          (/\ AnsweredNow(r)
           /\ requests[r].type = "view_submission"
           /\ requests[r].sessionId \notin DOMAIN feedbackSessions)
          => /\ requests'[r].resp = "200 clear"
             /\ feedbackSessions' = feedbackSessions
             /\ messages' = messages
             /\ writes' = writes
             /\ pt' = pt
             /\ ptDone' = ptDone]_vars

\* the server was restarted while a form was open, and the submission of that
\* form was answered with the normal acknowledgment
C17_Witness ==
    \E r \in DOMAIN requests :
        /\ requests[r].type = "view_submission"
        /\ requests[r].resp = "200 clear"
        /\ requests[r].sessionId \notin DOMAIN feedbackSessions
        /\ \A m \in DOMAIN messages : messages[m].version = 0

\* the iteration a posted card is at: 1 for a card of the first report, the
\* version in the title for a refined card
CardIteration(m) == IF messages[m].version = 0 THEN 1 ELSE messages[m].version

\* C18: the handling of a Feedback click adds one session under an id the map
\* did not have, holding the proposal of the clicked card and the iteration
\* that card is at, and leaves the other sessions, the cards on display and
\* the record-keeping writes as they were
C18_OpenFeedbackFrame ==
    [][\A r \in DOMAIN requests :
          (/\ AnsweredNow(r)
           /\ IsClick(r, "feedback_task")
           /\ ~ParseThrows(requests[r].value))
          => /\ \E sid \in DOMAIN feedbackSessions' \ DOMAIN feedbackSessions :
                   /\ DOMAIN feedbackSessions' = DOMAIN feedbackSessions \cup {sid}
                   /\ feedbackSessions'[sid].task = requests[r].value.obj
                   /\ feedbackSessions'[sid].iteration = CardIteration(requests[r].msg)
             /\ \A sid \in DOMAIN feedbackSessions :
                   feedbackSessions'[sid] = feedbackSessions[sid]
             /\ messages' = messages
             /\ writes' = writes]_vars

\* the id the orchestrator sent with a request body
Supplied(body) == body.request_id = Absent /\ body.trace_id # Absent

\* C19: a processing run whose body came with the orchestrator's trace id runs
\* under that id, and every card button payload, of the first report and of
\* every refined card, carries the id of the run that reconciled its proposal
C19_TraceIdThreaded ==
    /\ \A i \in DOMAIN ptDone :
          Supplied(ptDone[i].body) => ptDone[i].traceId = ptDone[i].body.trace_id
    /\ (pt.pc = "compare" /\ Supplied(pt.body)) => pt.traceId = pt.body.trace_id
    /\ \A mc \in CardSlots :
          LET card == messages[mc[1]].cards[mc[2]]
          IN  \E d \in Reconciled :
                  /\ card.accept.obj.traceId = d.traceId
                  /\ card.feedback.obj.traceId = d.traceId
                  /\ messages[mc[1]].traceId = d.traceId
    /\ \A sid \in DOMAIN feedbackSessions :
          \E d \in Reconciled : feedbackSessions[sid].traceId = d.traceId

\* a refined card is on the channel whose payload carries the trace id the
\* orchestrator sent
C19_Witness ==
    \E m \in DOMAIN messages, d \in Reconciled :
        /\ messages[m].version >= 2
        /\ Supplied(d.body)
        /\ messages[m].cards[1].accept.obj.traceId = d.body.trace_id
        /\ Refinements(messages[m].cards[1].task) >= 1

\* C20: every record created by an Accept went to the data source that the
\* processing run of its proposal matched, and every card button payload, of
\* the first report and of every refined card, names that data source
C20_DestinationResolvedOnce ==
    /\ \A i \in DOMAIN writes :
          writes[i].op = "create"
          => \E d \in Reconciled :
                 /\ d.traceId = writes[i].task.traceId
                 /\ writes[i].target = d.targetDbId
    /\ \A card \in AllCards :
          \E d \in Reconciled :
              /\ d.traceId = card.accept.obj.traceId
              /\ card.accept.obj.targetDbId = d.targetDbId
              /\ card.feedback.obj.targetDbId = d.targetDbId

\* the Accept of a refined card created a record in the matched data source,
\* which is not the one the environment names
C20_Witness ==
    \E i \in DOMAIN writes, d \in Reconciled :
        /\ writes[i].op = "create"
        /\ Refinements(writes[i].task) >= 1
        /\ messages[requests[writes[i].req].msg].version >= 2
        /\ d.targetDbId # NotionTaskDbId
        /\ writes[i].target = d.targetDbId

\* C21: a processing run that finds no project name, no data source at all or
\* no matching data source is answered with an error status and an empty
\* result, and the step that answers it posts nothing to the channel
C21_UnresolvedDestinationFails ==
    [][\A i \in DOMAIN ptDone' \ DOMAIN ptDone :
          ptDone'[i].failure \in {"no_project", "no_sources", "no_match"}
          => /\ ptDone'[i].status \in {400, 404, 500}
             /\ ptDone'[i].result = <<>>
             /\ ptDone'[i].targetDbId = Absent
             /\ messages' = messages
             /\ pt' = Idle]_vars

\* a run ended on a missing project name or a missing match, with nothing on
\* the channel
C21_Witness ==
    /\ \E i \in DOMAIN ptDone :
          ptDone[i].failure \in {"no_project", "no_match"} /\ ptDone[i].status >= 400
    /\ messages = <<>>

\* C22: a processing run whose reconciled list is empty is answered 200 and
\* the message posted for it holds no proposal card, so no Accept, Skip or
\* Feedback button
C22_EmptyListNoCard ==
    \A d \in Reconciled :
        d.result = <<>>
        => \A m \in DOMAIN messages :
               messages[m].traceId = d.traceId => messages[m].cards = <<>>

\* both candidates of a run were dropped and the message posted for the run
\* holds no card
C22_Witness ==
    \E d \in Reconciled :
        /\ Len(d.proposals) = 2
        /\ d.result = <<>>
        /\ \E m \in DOMAIN messages :
              messages[m].traceId = d.traceId /\ messages[m].cards = <<>>

\* C23: each of the three buttons of every posted card carries a decodable
\* payload that holds the proposal's fields, the id of its session and,
\* beyond the fields the proposal itself has, its index in the queue
C23_ButtonsCarryPayload ==
    \A mc \in CardSlots :
        LET card == messages[mc[1]].cards[mc[2]]
        IN  \A b \in Buttons :
                /\ ~ParseThrows(ButtonValue(card, b))
                /\ ButtonValue(card, b).obj.title = card.task.title
                /\ ButtonValue(card, b).obj.traceId = messages[mc[1]].traceId
                /\ DOMAIN ButtonValue(card, b).obj \ DOMAIN card.task # {}

\* the fields of a proposal that the card shows and Notion stores
ShownFields ==
    {"title", "project", "status", "owner", "priority", "linked_jtbd",
     "start_date", "due_date", "focus_this_week", "action", "notion_url"}

\* C24 as stated: the payload of the Accept and of the Feedback button of
\* every card decodes to the fields, notes included, of the proposal the card
\* shows
C24_PayloadRoundTrip ==
    \A card \in AllCards :
        \A v \in {card.accept, card.feedback} :
            /\ ~ParseThrows(v)
            /\ \A f \in ShownFields : v.obj[f] = card.task[f]
            /\ v.obj.notes = card.task.notes

\* C24 amended: the payload decodes to the fields of the proposal the card
\* shows, with the same notes when they have at most 500 characters and with
\* their first 500 characters followed by "..." when they have more; an
\* Accept writes the decoded title and notes, the notes followed by
\* "\n[Updated via Slack]" when it updates a page
C24_PayloadRoundTripUpToCut ==
    /\ \A card \in AllCards :
          \A v \in {card.accept, card.feedback} :
              /\ ~ParseThrows(v)
              /\ \A f \in ShownFields : v.obj[f] = card.task[f]
              /\ IF card.task.notes.len <= NotesLimit
                 THEN v.obj.notes = card.task.notes
                 ELSE /\ v.obj.notes.len = NotesLimit + 3
                      /\ v.obj.notes.cut
                      /\ v.obj.notes.refined = card.task.notes.refined
    /\ \A i \in DOMAIN writes :
          LET card == messages[requests[writes[i].req].msg].cards[requests[writes[i].req].card]
          IN  /\ writes[i].task = card.accept.obj
              /\ writes[i].properties.Tasks = card.task.title
              /\ writes[i].properties.Notes.text = card.accept.obj.notes
              /\ writes[i].properties.Notes.suffix =
                     IF writes[i].op = "update" THEN "\n[Updated via Slack]" ELSE ""

\* the Accept of a card that shows notes of more than 500 characters wrote the
\* cut notes to Notion
C24_Witness ==
    \E i \in DOMAIN writes :
        LET card == messages[requests[writes[i].req].msg].cards[requests[writes[i].req].card]
        IN  /\ card.task.notes.len > NotesLimit
            /\ writes[i].properties.Notes.text.cut
            /\ writes[i].properties.Notes.text.len = NotesLimit + 3

\* the handler of request r has called Notion and has not yet answered
InFlight(r) == requests[r].resp = "awaiting Notion"

\* C25: of the clicks made on the cards of one session, at most one is being
\* handled between its call to Notion and its answer at any time
C25_OneInFlight ==
    \A r, q \in DOMAIN requests :
        (/\ InFlight(r)
         /\ InFlight(q)
         /\ SessionOf(r) = SessionOf(q))
        => r = q

\* a run of the scenario: three reconciled proposals, two CREATE and one UPDATE
ScenarioRun(d) ==
    /\ Len(d.result) = ScenarioCands
    /\ Cardinality({k \in DOMAIN d.result : d.result[k].action = "UPDATE"}) = 1
    /\ \E m \in DOMAIN messages : messages[m].traceId = d.traceId

\* C26: in a session of three reconciled proposals (two CREATE, one UPDATE)
\* taken in order by Accept or Skip, the session has proposals awaiting an
\* action until the third has been decided and none from then on, each Accept
\* that was answered with a committed card caused one record-keeping write,
\* and no Skip caused one
C26_SessionEndsAtLastProposal ==
    \A d \in Reconciled :
        ScenarioRun(d)
        => /\ (Awaiting(messages, d.traceId) = {})
                  <=> (\A k \in 1..ScenarioCands : Decided(d.traceId, k))
           /\ \A r \in DOMAIN requests :
                  /\ IsClick(r, "skip_task")
                         => \A i \in DOMAIN writes : writes[i].req # r
                  /\ (IsClick(r, "accept_task")
                         /\ requests[r].resp \in {"200 Created", "200 Updated"})
                         => Cardinality({i \in DOMAIN writes : writes[i].req = r}) = 1

\* C27: an Accept or Skip click handled when no proposal of its session
\* awaits an action any more writes nothing and is answered "nothing to act on"
C27_StaleClickNoOp ==
    [][\A r \in DOMAIN requests :
          (/\ AnsweredNow(r)
           /\ IsClick(r, "accept_task") \/ IsClick(r, "skip_task")
           /\ Awaiting(messages, SessionOf(r)) = {})
          => /\ writes' = writes
             /\ requests'[r].resp = "200 Nothing to act on"]_vars

\* ------------------------------------------------- repeated trace ids
\* how many transcript requests arrive in the runs with repeated ids
MaxRepeats == 2

\* transcript requests that may carry the id of an earlier one
NextRepeat ==
    \/ \E t \in Traces, f \in Failures :
          Arrives(MaxRepeats) /\ ProcessRejected(OrchestratorBody(t), f)
    \/ \E t \in Traces, n \in 0..MaxCands, db \in Dbs :
          Arrives(MaxRepeats) /\ ProcessStart(OrchestratorBody(t), n, db)
    \/ CompareStep("faithful")
    \/ \E posted \in BOOLEAN : ProcessSend(posted)

SpecRepeat == Init /\ [][NextRepeat]_vars

\* C28: a transcript request carrying the trace id of an earlier reconciled
\* one is not reconciled again and sends no second set of cards
C28_DuplicateSessionRejected ==
    /\ \A i, j \in DOMAIN ptDone :
          (i < j /\ ptDone[i].status = 200
             /\ ptDone[j].traceId = ptDone[i].traceId)
          => ptDone[j].status # 200
    /\ \A m, n \in DOMAIN messages :
          (messages[m].version = 0 /\ messages[n].version = 0
             /\ messages[m].traceId = messages[n].traceId) => m = n

\* C29: every interaction event that was handled got a response, and the
\* response is an acknowledgement or a replacement card, never a bare error
C29_FailuresSurfaceAsCards ==
    \A r \in DOMAIN requests :
        Handled(r)
        => requests[r].resp \in {"200", "200 clear", "200 Created",
                                 "200 Updated", "200 Skipped"}

\* the writes a step adds to the record-keeping service
NewWrites == {i \in DOMAIN writes' : i > Len(writes)}

\* C30: an answered Accept has issued the call of the proposal's action: for
\* CREATE at most one write, a create, and exactly one when the card says
\* "Created"; for UPDATE with an id or a 32-hex-digit url at most one write, an
\* update of that page, and exactly one when the card says "Updated"; for
\* UPDATE with neither, no write, no card, and the 400 error as the answer
C30_AcceptIssuesMatchingCall ==
    [][\A r \in DOMAIN requests :
          (AnsweredNow(r) /\ IsClick(r, "accept_task")
             /\ ~ParseThrows(requests[r].value))
          => LET taskData == requests[r].value.obj
                 resp == requests'[r].resp
                 hasId == taskData.id # Null \/ taskData.notion_url.hex # 0
             IN  /\ SubSeq(writes', 1, Len(writes)) = writes
                 /\ Cardinality(NewWrites) <= 1
                 /\ \A i \in NewWrites : writes'[i].req = r
                 /\ taskData.action = "CREATE"
                      => /\ \A i \in NewWrites : writes'[i].op = "create"
                         /\ resp # "200 Updated"
                         /\ resp = "200 Created" <=> NewWrites # {}
                 /\ (taskData.action = "UPDATE" /\ hasId)
                      => /\ \A i \in NewWrites :
                               /\ writes'[i].op = "update"
                               /\ writes'[i].target.hex
                                    = IF taskData.id # Null THEN taskData.id.hex
                                      ELSE taskData.notion_url.hex
                         /\ resp # "200 Created"
                         /\ resp = "200 Updated" <=> NewWrites # {}
                 /\ (taskData.action = "UPDATE" /\ ~hasId)
                      => /\ NewWrites = {}
                         /\ messages' = messages
                         /\ resp = "400 Could not determine Page ID for update."]_vars

\* an Accept of an UPDATE proposal without id and without url was answered
\* with the 400 error and nothing was written
C30_Witness ==
    \E r \in DOMAIN requests :
        /\ IsClick(r, "accept_task")
        /\ requests[r].value.raw = "json"
        /\ requests[r].value.obj.action = "UPDATE"
        /\ requests[r].value.obj.id = Null
        /\ requests[r].value.obj.notion_url = EmptyUrl
        /\ requests[r].resp = "400 Could not determine Page ID for update."
        /\ writes = <<>>

\* ------------------------------------------------- page ids and urls as text
\* the length of the run of hex digits the handler's pattern asks for
HexRun == 32

\* [a-f0-9]
HexChars == {"0", "1", "2", "3", "4", "5", "6", "7", "8", "9",
             "a", "b", "c", "d", "e", "f"}

\* the digits the page ids of the runs are made of
IdDigits == {"0", "7", "a", "f"}

\* n copies of the character c
Rep(c, n) == [k \in 1..n |-> c]

\* a page id as Notion returns it: 8-4-4-4-12 lower-case hex digits
Uuid(a, b, c) ==
    Rep(a, 8) \o <<"-">> \o Rep(b, 4) \o <<"-">> \o Rep(c, 4) \o <<"-">>
        \o Rep(b, 4) \o <<"-">> \o Rep(a, 6) \o Rep(c, 6)

\* page.id of the fetched rows; the empty text stands for a row without id
PageIdTexts == {Uuid(a, b, c) : a, b, c \in IdDigits} \cup {<<>>}

\* "https://www.notion.so/"
NotionPrefix ==
    <<"h", "t", "t", "p", "s", ":", "/", "/", "w", "w", "w", ".",
      "n", "o", "t", "i", "o", "n", ".", "s", "o", "/">>

IsDash(ch) == ch = "-"

NotDash(ch) == ch # "-"

\* a url that keeps the dashes of the id
UrlKeepingDashes(id) == NotionPrefix \o id

\* `https://www.notion.so/${(page.id || "").replace(/-/g, "")}`
UrlText(id) == NotionPrefix \o SelectSeq(id, NotDash)

\* text.match(/([a-f0-9]{32})/): the leftmost run of 32 hex digits, or no match
FirstHexRun(text) ==
    LET starts == {i \in 1..(Len(text) - HexRun + 1) :
                      \A k \in 0..(HexRun - 1) : text[i + k] \in HexChars}
    IN  IF starts = {} THEN <<>>
        ELSE LET i == CHOOSE s \in starts : \A o \in starts : s <= o
             IN  SubSeq(text, i, i + HexRun - 1)

\* a fetched row becomes an existingTasks entry with its url
MapPage ==
    /\ call.fn = "pageId" /\ call.step = "fetched"
    /\ call' = [call EXCEPT !.step = "listed", !.url = UrlText(call.id)]
    /\ UNCHANGED <<pt, ptDone, messages, requests, modals, feedbackSessions, writes,
                   orch>>

\* accept_task of an UPDATE proposal that carries the url and no id:
\* pageId = taskData.id, else the match in taskData.notion_url
MatchPageId ==
    /\ call.fn = "pageId" /\ call.step = "listed"
    /\ call' = [call EXCEPT !.step = "matched",
                            !.pageId = IF call.url # <<>> THEN FirstHexRun(call.url)
                                       ELSE <<>>]
    /\ UNCHANGED <<pt, ptDone, messages, requests, modals, feedbackSessions, writes,
                   orch>>

InitPageId ==
    /\ pt = Idle /\ ptDone = <<>> /\ messages = <<>> /\ requests = <<>>
    /\ modals = {} /\ feedbackSessions = <<>> /\ writes = <<>> /\ orch = <<>>
    /\ call \in {[fn |-> "pageId", step |-> "fetched", id |-> id, url |-> <<>>,
                  pageId |-> <<>>] : id \in PageIdTexts}

NextPageId == MapPage \/ MatchPageId

SpecPageId == InitPageId /\ [][NextPageId]_vars

\* C31: the page id matched in the url built for a fetched row is that row's
\* id without its dashes, digit for digit, and the id of no other row
C31_PageIdFromUrl ==
    (call.fn = "pageId" /\ call.step = "matched" /\ call.id # <<>>)
    => /\ Len(call.pageId) = HexRun
       /\ call.pageId = SelectSeq(call.id, NotDash)
       /\ \A other \in PageIdTexts :
             SelectSeq(other, NotDash) = call.pageId => other = call.id

\* a row with a dashed id went through the url and the match
C31_Witness ==
    /\ call.fn = "pageId" /\ call.step = "matched"
    /\ \E i \in DOMAIN call.id : IsDash(call.id[i])
    /\ call.pageId # <<>>
    /\ call.url = NotionPrefix \o call.pageId

\* ------------------------------------------------- refine, then accept
\* one proposal that is refined and accepted, on any of its cards
NextReplace ==
    \/ \E t \in Traces, db \in Dbs :
          Arrives(1) /\ ProcessStart(OrchestratorBody(t), 1, db)
    \/ CompareStep("faithful")
    \/ \E posted \in BOOLEAN : ProcessSend(posted)
    \/ \E m \in DOMAIN messages, b \in {"accept_task", "feedback_task"} :
          Delivers(MaxLoopEvents) /\ HumanClick(m, 1, b)
    \/ \E md \in modals, e \in {"none", "title"} :
          Delivers(MaxLoopEvents) /\ HumanSubmit(md, e)
    \/ \E r \in DOMAIN requests, w \in BOOLEAN : HandleAccept(r, w)
    \/ \E r \in DOMAIN requests, o \in BOOLEAN : HandleFeedback(r, o)
    \/ \E r \in DOMAIN requests, p \in BOOLEAN : HandleSubmit(r, p)

SpecReplace == Init /\ [][NextReplace]_vars

\* the version of the message whose card the write's Accept was clicked on
VersionWritten(i) == messages[requests[writes[i].req].msg].version

\* C32: once a proposal was refined its earlier version cannot be committed:
\* no proposal has one write from its original card and another from a
\* refined card
C32_RefinedReplacesOriginal ==
    \A i, j \in DOMAIN writes :
        (/\ writes[i].origin = writes[j].origin
         /\ writes[i].task.traceId = writes[j].task.traceId)
        => (VersionWritten(i) = 0 <=> VersionWritten(j) = 0)

\* the fields of a proposal the feedback form does not expose
SameIdentity(a, b) ==
    /\ a.action = b.action
    /\ a.notion_url = b.notion_url
    /\ a.id = b.id
    /\ a.targetDbId = b.targetDbId
    /\ a.traceId = b.traceId

\* C33: a Feedback-submit leaves the action, the url, the record id, the
\* destination database and the trace id of the session's proposal as they
\* were: in the session, on the refined card and in its button payload
C33_SubmitKeepsIdentity ==
    [][\A r \in DOMAIN requests :
          (/\ AnsweredNow(r)
           /\ requests[r].type = "view_submission"
           /\ requests[r].sessionId \in DOMAIN feedbackSessions)
          => LET before == feedbackSessions[requests[r].sessionId].task
                 after == feedbackSessions'[requests[r].sessionId].task
             IN  /\ SameIdentity(before, after)
                 /\ messages' # messages
                      => LET card == messages'[Len(messages')].cards[1]
                         IN  /\ SameIdentity(before, card.task)
                             /\ card.accept.raw = "json"
                             /\ SameIdentity(before, card.accept.obj)
                             /\ SameIdentity(before, card.feedback.obj)]_vars

\* the refined card of an UPDATE proposal whose title was changed in the form
C33_Witness ==
    \E m \in DOMAIN messages, r \in DOMAIN requests :
        /\ messages[m].version > 0
        /\ messages[m].cards[1].task.action = "UPDATE"
        /\ messages[m].cards[1].task.notion_url \in ExistingUrls
        /\ requests[r].type = "view_submission"
        /\ requests[r].resp = "200 clear"
        /\ messages[m].cards[1].task.title = requests[r].values.title
        /\ requests[r].values.title > MaxCands

\* ------------------------------------------------- destination matching
\* titles of data sources and project names, as text with upper and lower case
Titles == {<<"a">>, <<"A">>, <<"b">>, <<"a", "b">>, <<"A", "B">>, <<"b", "a">>}

\* what the model may answer: a listed or unlisted title, other text, nothing
ModelTexts == Titles \cup {<<"z">>, <<>>}

\* the lists listAllNotionDatabases may return: ids by position, any titles
SourceLists ==
    UNION {[1..n -> Titles] : n \in 0..NumDbs}

AllSources(titles) == [i \in DOMAIN titles |-> [id |-> i, title |-> titles[i]]]

\* toLowerCase()
LowerChar(ch) == CASE ch = "A" -> "a" [] ch = "B" -> "b" [] OTHER -> ch

ToLowerCase(text) == [i \in DOMAIN text |-> LowerChar(text[i])]

\* text.includes(part)
Includes(text, part) ==
    \E i \in 0..(Len(text) - Len(part)) : SubSeq(text, i + 1, i + Len(part)) = part

\* allSources.find(pred): the first entry of the list in S, 0 when there is none
FindFirst(S) == IF S = {} THEN 0 ELSE CHOOSE i \in S : \A j \in S : i <= j

\* the model's answer handed on without looking it up in the list
TrustModelText(projectName, allSources, text) == text

\* findBestDatabaseMatch: the model's answer when it is one of the titles,
\* else null (the empty text here)
FindBestDatabaseMatch(projectName, allSources, text) ==
    IF projectName = <<>> \/ Len(allSources) = 0 THEN <<>>
    ELSE IF \E i \in DOMAIN allSources : allSources[i].title = text THEN text
    ELSE <<>>

\* step 4 up to the awaited matcher: an empty list is answered 500
AskMatcher ==
    /\ call.fn = "match" /\ call.step = "listed"
    /\ IF Len(call.allSources) = 0
       THEN call' = [call EXCEPT !.step = "matched", !.status = 500]
       ELSE \E text \in ModelTexts :
               call' = [call EXCEPT
                   !.step = "answered",
                   !.best = FindBestDatabaseMatch(call.projectName, call.allSources, text)]
    /\ UNCHANGED <<pt, ptDone, messages, requests, modals, feedbackSessions, writes,
                   orch>>

\* the fallback on the project name, the 404, and the entry the title is
\* looked up in; match.id of an entry that is not there throws (500)
ChooseDestination ==
    /\ call.fn = "match" /\ call.step = "answered"
    /\ LET allSources == call.allSources
           fallback == FindFirst({i \in DOMAIN allSources :
                           Includes(ToLowerCase(allSources[i].title),
                                    ToLowerCase(call.projectName))})
           chosenTitle == IF call.best # <<>> THEN call.best
                          ELSE IF fallback # 0 THEN allSources[fallback].title
                          ELSE <<>>
           match == FindFirst({i \in DOMAIN allSources :
                                  allSources[i].title = chosenTitle})
       IN  call' = [call EXCEPT
               !.step = "matched",
               !.chosenTitle = chosenTitle,
               !.matchId = IF chosenTitle # <<>> /\ match # 0
                           THEN allSources[match].id ELSE 0,
               !.status = IF chosenTitle = <<>> THEN 404
                          ELSE IF match = 0 THEN 500 ELSE 200]
    /\ UNCHANGED <<pt, ptDone, messages, requests, modals, feedbackSessions, writes,
                   orch>>

InitMatch ==
    /\ pt = Idle /\ ptDone = <<>> /\ messages = <<>> /\ requests = <<>>
    /\ modals = {} /\ feedbackSessions = <<>> /\ writes = <<>> /\ orch = <<>>
    /\ call \in {[fn |-> "match", step |-> "listed", projectName |-> p,
                  allSources |-> AllSources(titles), best |-> <<>>,
                  chosenTitle |-> <<>>, matchId |-> 0, status |-> 0] :
                    p \in Titles, titles \in SourceLists}

NextMatch == AskMatcher \/ ChooseDestination

SpecMatch == InitMatch /\ [][NextMatch]_vars

\* the titles of the listed data sources
ListedTitles == {call.allSources[i].title : i \in DOMAIN call.allSources}

\* C34: the matcher's result is null or a listed title; when processing goes
\* on past the selection the chosen title is listed, a title chosen by the
\* fallback contains the project name whatever the case, and the id used from
\* then on is that of a listed data source with the chosen title
C34_DestinationIsListed ==
    call.fn = "match"
    => /\ call.best \in ListedTitles \cup {<<>>}
       /\ (call.step = "matched" /\ call.status = 200)
            => /\ call.chosenTitle \in ListedTitles
               /\ call.best # <<>> => call.chosenTitle = call.best
               /\ call.best = <<>>
                    => Includes(ToLowerCase(call.chosenTitle),
                                ToLowerCase(call.projectName))
               /\ \E i \in DOMAIN call.allSources :
                     /\ call.allSources[i].id = call.matchId
                     /\ call.allSources[i].title = call.chosenTitle
       /\ (call.step = "matched" /\ call.status # 200) => call.matchId = 0

\* the matcher gave nothing and the fallback chose a title that holds the
\* project name in another case
C34_Witness ==
    /\ call.fn = "match" /\ call.step = "matched" /\ call.status = 200
    /\ call.best = <<>>
    /\ ~Includes(call.chosenTitle, call.projectName)
    /\ call.matchId \in DOMAIN call.allSources

\* ------------------------------------------------- the transcript save
\* a failed save that ends the request
AbortOnFailedSave(saved) == ~saved

\* catch (dbError) { logger.error("DB Save Failed", ...) }: "Don't fail the
\* whole process if DB fails, continue to Notion/Slack"
SaveFailureAborts(saved) == FALSE

\* steps 1 to 6 with the outcome of newTranscript.save(): saved, or rejected
\* by the document store
ProcessStartSave(body, n, db, saved) ==
    /\ pt.pc = "idle"
    /\ call' = [fn |-> "save", transcript_id |-> TraceIdOf(body, MintedTraceId),
                saved |-> saved]
    /\ IF SaveFailureAborts(saved)
       THEN /\ ptDone' = Append(ptDone,
                   [traceId |-> TraceIdOf(body, MintedTraceId), body |-> body,
                    targetDbId |-> Absent, failure |-> "db_save", status |-> 500,
                    result |-> <<>>, from |-> <<>>, answers |-> <<>>,
                    proposals |-> <<>>])
            /\ UNCHANGED pt
       ELSE /\ pt' = [pc |-> "compare", traceId |-> TraceIdOf(body, MintedTraceId),
                      body |-> body, targetDbId |-> db,
                      proposals |-> [i \in 1..n |-> Proposal(i)], idx |-> 1,
                      finalOutput |-> <<>>, from |-> <<>>, answers |-> <<>>]
            /\ UNCHANGED ptDone
    /\ UNCHANGED <<messages, requests, modals, feedbackSessions, writes, orch>>

NextSave ==
    \/ \E t \in Traces, n \in 0..MaxCands, db \in Dbs, saved \in BOOLEAN :
          Arrives(1) /\ ProcessStartSave(OrchestratorBody(t), n, db, saved)
    \/ CompareStep("faithful")
    \/ \E posted \in BOOLEAN : ProcessSend(posted)

SpecSave == Init /\ [][NextSave]_vars

\* the runs that went through the save recorded in call
RunsOfSave == {d \in {ptDone[i] : i \in DOMAIN ptDone} :
                  call.fn = "save" /\ d.traceId = call.transcript_id}

\* C35: whatever the outcome of the transcript save, a run with a matching
\* destination is answered 200 with the reconciled list: every candidate was
\* compared, the list holds the answers that succeeded, in order, and the
\* message posted for the run holds one card per entry of the list
C35_SaveFailureIgnored ==
    \A d \in RunsOfSave :
        /\ d.status = 200 /\ d.failure = "none"
        /\ d.targetDbId \in Dbs
        /\ Len(d.answers) = Len(d.proposals)
        /\ Len(d.result) = Len(d.from)
        /\ \A i \in DOMAIN d.answers :
              Succeeded(d.answers[i]) <=> \E k \in DOMAIN d.from : d.from[k] = i
        /\ \A k \in DOMAIN d.from : d.result[k] = d.answers[d.from[k]].obj
        /\ \A m \in DOMAIN messages :
              messages[m].traceId = d.traceId
              => /\ Len(messages[m].cards) = Len(d.result)
                 /\ \A k \in DOMAIN d.result : messages[m].cards[k].task = d.result[k]

\* the save was rejected and the run still reconciled a proposal and posted
\* its card
C35_Witness ==
    /\ call.fn = "save" /\ ~call.saved
    /\ \E d \in RunsOfSave :
          /\ d.status = 200
          /\ Len(d.result) >= 1
          /\ \E m \in DOMAIN messages :
                messages[m].traceId = d.traceId /\ Len(messages[m].cards) >= 1

\* ------------------------------------------------- the orchestrator webhook
MaxWebhooks == 2     \* requests posted to /api/v1/webhook
MaxBlocks == 2       \* speaker blocks of a Read AI payload

\* a field the body does not have
Missing == [kind |-> "missing"]

\* speaker blocks: block.speaker?.name given or not, block.words
SpeakerBlocks ==
    UNION {[1..n -> {[name |-> "Ann", words |-> "hi"],
                     [name |-> "", words |-> "hi"]}] : n \in 0..MaxBlocks}

\* the bodies posted to the webhook: Read AI payloads (body.transcript missing,
\* without speaker_blocks, or with a list of blocks) and standard payloads
\* (transcript missing, empty, or a text of one line)
WebhookBodies ==
    {[trigger |-> "meeting_end", transcript |-> Missing]}
    \cup {[trigger |-> "meeting_end", transcript |-> [kind |-> "object", speaker_blocks |-> Missing]]}
    \cup {[trigger |-> "meeting_end",
           transcript |-> [kind |-> "object",
                           speaker_blocks |-> [kind |-> "list", blocks |-> b]]] :
             b \in SpeakerBlocks}
    \cup {[trigger |-> "other", transcript |-> Missing]}
    \cup {[trigger |-> "other", transcript |-> [kind |-> "text", lines |-> l]] :
             l \in {<<>>, <<"Ann: hi">>}}

\* `${block.speaker?.name || "Unknown"}: ${block.words}`
BlockLine(block) ==
    (IF block.name = "" THEN "Unknown" ELSE block.name) \o ": " \o block.words

\* parseReadAIPayload: TRUE when it throws
ParseReadAIThrows(body) ==
    \/ body.transcript = Missing
    \/ body.transcript.speaker_blocks = Missing

\* parseReadAIPayload: the blocks as lines joined by "\n"; a text is kept as
\* the list of its lines, and the empty text has none
TextTranscript(body) ==
    [i \in DOMAIN body.transcript.speaker_blocks.blocks |->
        BlockLine(body.transcript.speaker_blocks.blocks[i])]

\* !req.body.transcript of the standard branch: missing or the empty text
NoTranscript(body) ==
    \/ body.transcript = Missing
    \/ body.transcript.kind = "text" /\ body.transcript.lines = <<>>

\* crypto.randomUUID() of the webhook: an id no earlier request got
WebhookTraceId == Len(orch) + 1

\* runPipelineBackground up to its await: the body posted to the MCP server
Forwarded(traceId, transcript, source) ==
    [trace_id |-> traceId, transcript |-> transcript, source |-> source]

\* POST /api/v1/webhook up to the await of the background pipeline
Webhook(body) ==
    /\ Len(orch) < MaxWebhooks
    /\ LET traceId == WebhookTraceId
           entry == [endpoint |-> "webhook", body |-> body, traceId |-> traceId]
       IN  orch' = Append(orch,
             IF body.trigger = "meeting_end"
             THEN IF ParseReadAIThrows(body)
                  THEN entry @@ [responses |-> <<200>>, forwarded |-> Missing,
                                 pipeline |-> "none"]
                  ELSE entry @@ [responses |-> <<200>>,
                                 forwarded |-> Forwarded(traceId, TextTranscript(body),
                                                         "read_ai"),
                                 pipeline |-> "posted"]
             ELSE IF NoTranscript(body)
                  THEN entry @@ [responses |-> <<400>>, forwarded |-> Missing,
                                 pipeline |-> "none"]
                  ELSE entry @@ [responses |-> <<200>>,
                                 forwarded |-> Forwarded(traceId, body.transcript.lines,
                                                         "webhook"),
                                 pipeline |-> "posted"])
    /\ UNCHANGED <<pt, ptDone, messages, requests, modals, feedbackSessions, writes,
                   call>>

\* the awaited axios.post of runPipelineBackground settles: handed off, or
\* failed and logged; the caller was answered before
PipelineSettles(i, ok) ==
    /\ i \in DOMAIN orch
    /\ orch[i].endpoint = "webhook"
    /\ orch[i].pipeline = "posted"
    /\ orch' = [orch EXCEPT ![i].pipeline = IF ok THEN "handed off" ELSE "failed"]
    /\ UNCHANGED <<pt, ptDone, messages, requests, modals, feedbackSessions, writes,
                   call>>

NextWebhook ==
    \/ \E body \in WebhookBodies : Webhook(body)
    \/ \E i \in DOMAIN orch, ok \in BOOLEAN : PipelineSettles(i, ok)

SpecWebhook == Init /\ [][NextWebhook]_vars

\* C36: every webhook request has exactly one response, also after its
\* pipeline failed; what is forwarded holds a transcript that is not empty and
\* a trace id no other request has; a body without transcript or without
\* speaker blocks is not forwarded
C36_WebhookForwardsTranscripts ==
    \A i \in DOMAIN orch :
        /\ Len(orch[i].responses) = 1
        /\ orch[i].forwarded # Missing
             => /\ orch[i].forwarded.transcript # <<>>
                /\ orch[i].forwarded.trace_id = orch[i].traceId
                /\ \A j \in DOMAIN orch : j # i => orch[j].traceId # orch[i].traceId
        /\ (orch[i].body.transcript = Missing
              \/ (orch[i].body.trigger = "meeting_end"
                    /\ orch[i].body.transcript.speaker_blocks
                          \in {Missing, [kind |-> "list", blocks |-> <<>>]}))
             => orch[i].forwarded = Missing

\* ------------------------------------------------- the upload endpoint
MaxUploads == 2      \* requests posted to /api/v1/transcript

\* the length under which an extracted text counts as too short
MinChars == 50

\* req.file: none, or a file with the extension of its name and the number
\* of characters its text has after trimming
UploadFiles ==
    {Missing} \cup
    {[kind |-> "file", ext |-> e, chars |-> n] :
        e \in {"txt", "docx", "pdf"}, n \in {0, MinChars - 1, MinChars}}

\* POST /api/v1/transcript up to the await of the pipeline: without a file
\* 400; a name ending in .docx goes through mammoth, which may throw (500);
\* any other file is read as utf8 text; the text is forwarded as it is
Upload(file, parsed) ==
    /\ Len(orch) < MaxUploads
    /\ LET traceId == WebhookTraceId
           entry == [endpoint |-> "upload", body |-> file, traceId |-> traceId]
       IN  orch' = Append(orch,
             IF file = Missing
             THEN entry @@ [responses |-> <<400>>, forwarded |-> Missing,
                            pipeline |-> "none"]
             ELSE IF file.ext = "docx" /\ ~parsed
             THEN entry @@ [responses |-> <<500>>, forwarded |-> Missing,
                            pipeline |-> "none"]
             ELSE entry @@ [responses |-> <<>>,
                            forwarded |-> [trace_id |-> traceId, chars |-> file.chars,
                                           source |-> "file-upload"],
                            pipeline |-> "posted"])
    /\ UNCHANGED <<pt, ptDone, messages, requests, modals, feedbackSessions, writes,
                   call>>

\* the awaited runPipelineBackground returns, its own failure caught and
\* logged: the upload is answered 200 "File processed successfully"
UploadSettles(i, ok) ==
    /\ i \in DOMAIN orch
    /\ orch[i].endpoint = "upload"
    /\ orch[i].pipeline = "posted"
    /\ orch' = [orch EXCEPT ![i].pipeline = IF ok THEN "handed off" ELSE "failed",
                            ![i].responses = Append(@, 200)]
    /\ UNCHANGED <<pt, ptDone, messages, requests, modals, feedbackSessions, writes,
                   call>>

NextUpload ==
    \/ \E file \in UploadFiles, parsed \in BOOLEAN : Upload(file, parsed)
    \/ \E i \in DOMAIN orch, ok \in BOOLEAN : UploadSettles(i, ok)

SpecUpload == Init /\ [][NextUpload]_vars

\* C37: an upload without file, with a file that is neither .txt nor .docx,
\* or with a text of fewer than 50 characters is not forwarded to the MCP
\* server and is answered with an error
C37_UploadOnlyTxtDocx ==
    \A i \in DOMAIN orch :
        (/\ orch[i].endpoint = "upload"
         /\ \/ orch[i].body = Missing
            \/ orch[i].body.ext \notin {"txt", "docx"}
            \/ orch[i].body.chars < MinChars)
        => /\ orch[i].forwarded = Missing
           /\ \A k \in DOMAIN orch[i].responses : orch[i].responses[k] >= 400

\* ------------------------------------------------- generateTaskList
MaxExtracted == 2    \* tasks of the normalized data handed to generateTaskList
MaxExisting == 2     \* rows queryNotionDB returns

\* allAIExtractedTasks: the titles of the extracted tasks, in order
ExtractedLists == UNION {[1..n -> Titles] : n \in 0..MaxExtracted}

\* notionContext.existing_tasks: task_id is page.id, one per row
ExistingLists ==
    {[i \in DOMAIN titles |-> [task_id |-> i, title |-> titles[i]]] :
        titles \in UNION {[1..n -> Titles] : n \in 0..MaxExisting}}

\* the test of the find: one title holds the other, whatever the case
TitlesMatch(notionTitle, aiTitle) ==
    \/ Includes(ToLowerCase(notionTitle), ToLowerCase(aiTitle))
    \/ Includes(ToLowerCase(aiTitle), ToLowerCase(notionTitle))

\* an existing task that is matched and stays in the list
KeepMatched(existing_tasks, task_id) == existing_tasks

\* existing_tasks.filter(t => t.task_id !== existingNotionTask.task_id)
WithoutTask(existing_tasks, task_id) ==
    SelectSeq(existing_tasks, LAMBDA t : t.task_id # task_id)

\* one iteration of the for loop of generateTaskList
GenerateStep ==
    /\ call.fn = "generateTaskList"
    /\ call.idx <= Len(call.aiTasks)
    /\ LET aiTitle == call.aiTasks[call.idx]
           found == FindFirst({i \in DOMAIN call.existing_tasks :
                       TitlesMatch(call.existing_tasks[i].title, aiTitle)})
       IN  IF found # 0
           THEN LET existingNotionTask == call.existing_tasks[found]
                IN  call' = [call EXCEPT
                        !.idx = @ + 1,
                        !.taskList = Append(@, [task_id |-> existingNotionTask.task_id,
                                                title |-> existingNotionTask.title,
                                                action |-> "UPDATE"]),
                        !.existing_tasks = WithoutTask(@, existingNotionTask.task_id)]
           ELSE call' = [call EXCEPT
                        !.idx = @ + 1,
                        !.taskList = Append(@, [task_id |-> 0, title |-> aiTitle,
                                                action |-> "CREATE"])]
    /\ UNCHANGED <<pt, ptDone, messages, requests, modals, feedbackSessions, writes,
                   orch>>

\* return taskList
GenerateReturn ==
    /\ call.fn = "generateTaskList"
    /\ call.idx = Len(call.aiTasks) + 1
    /\ ~call.returned
    /\ call' = [call EXCEPT !.returned = TRUE]
    /\ UNCHANGED <<pt, ptDone, messages, requests, modals, feedbackSessions, writes,
                   orch>>

InitGenerate ==
    /\ pt = Idle /\ ptDone = <<>> /\ messages = <<>> /\ requests = <<>>
    /\ modals = {} /\ feedbackSessions = <<>> /\ writes = <<>> /\ orch = <<>>
    /\ call \in {[fn |-> "generateTaskList", aiTasks |-> a, queried |-> e,
                  existing_tasks |-> e, idx |-> 1, taskList |-> <<>>,
                  returned |-> FALSE] :
                    a \in ExtractedLists, e \in ExistingLists}

NextGenerate == GenerateStep \/ GenerateReturn

SpecGenerate == InitGenerate /\ [][NextGenerate]_vars

\* the queried tasks no entry before the k-th has taken
Unconsumed(k) ==
    {i \in DOMAIN call.queried :
        \A j \in 1..(k - 1) :
            call.taskList[j].action = "UPDATE"
            => call.taskList[j].task_id # call.queried[i].task_id}

\* C38: the list holds one entry per extracted task handled so far, in order
\* (all of them at the return); an entry is UPDATE exactly when a queried task
\* that no earlier entry took matches the extracted title, and it is then one
\* of those tasks; otherwise it is CREATE with the extracted title; no two
\* UPDATE entries take the same task
C38_OneEntryPerTask ==
    call.fn = "generateTaskList"
    => /\ Len(call.taskList) = call.idx - 1
       /\ call.returned => Len(call.taskList) = Len(call.aiTasks)
       /\ \A k \in DOMAIN call.taskList :
             LET entry == call.taskList[k]
                 matching == {i \in Unconsumed(k) :
                                 TitlesMatch(call.queried[i].title, call.aiTasks[k])}
             IN  /\ entry.action = "UPDATE" <=> matching # {}
                 /\ entry.action = "UPDATE"
                      => \E i \in matching :
                            /\ call.queried[i].task_id = entry.task_id
                            /\ call.queried[i].title = entry.title
                 /\ entry.action # "UPDATE"
                      => entry.action = "CREATE" /\ entry.title = call.aiTasks[k]
       /\ \A k, l \in DOMAIN call.taskList :
             (k # l /\ call.taskList[k].action = "UPDATE"
                /\ call.taskList[l].action = "UPDATE")
             => call.taskList[k].task_id # call.taskList[l].task_id

\* two extracted tasks matched the same queried task: the first took it, the
\* second became a CREATE, and the list was returned
C38_Witness ==
    /\ call.fn = "generateTaskList" /\ call.returned
    /\ Len(call.taskList) = 2
    /\ Len(call.queried) = 1
    /\ TitlesMatch(call.queried[1].title, call.aiTasks[1])
    /\ TitlesMatch(call.queried[1].title, call.aiTasks[2])
    /\ call.taskList[1].action = "UPDATE"
    /\ call.taskList[2].action = "CREATE"

====
